---- MODULE Spec2Model ----
(***************************************************************************)
(* Model of hqq/core/torch_lowbit.py: the HQQLinearTorchWeightOnlynt4      *)
(* module (scheme-A -> scheme-B quantization remapping, packed weight      *)
(* construction, forward / dequantize) and the patch function.             *)
(*                                                                         *)
(* Tensors are modelled element by element: a tensor is a record           *)
(* [shape, data, dtype] with a 2-D shape <<rows, cols>> and row-major      *)
(* data.  Real numbers are exact rationals <<numerator, denominator>>;     *)
(* the rounding of the 16-bit floating-point formats is not modelled.      *)
(* An optional value (None / unset attribute) is the empty sequence, a     *)
(* present value v is <<v>>.                                               *)
(***************************************************************************)
EXTENDS Integers, Sequences, FiniteSets, TLC

VARIABLES
    self,    \* the HQQLinearTorchWeightOnlynt4 object (Blank: not constructed)
    layer,   \* the layer last handed to the patch function, as it is after the call
    ret,     \* the last call: its name, arguments, whether it raised, what it returned
    pre,     \* the object as it was before the last call
    calls    \* number of method calls made on the object since its construction

vars == <<self, layer, ret, pre, calls>>

----------------------------------------------------------------------------
(* Optional values *)

None == <<>>

Some(v) == <<v>>

IsNone(o) == o = <<>>

Val(o) == o[1]

----------------------------------------------------------------------------
(* Exact rational arithmetic *)

RECURSIVE GCD(_, _)
GCD(a, b) == IF b = 0 THEN a ELSE GCD(b, a % b)

Abs(n) == IF n < 0 THEN -n ELSE n

RNorm(x) ==
    LET g == GCD(Abs(x[1]), x[2])
    IN  <<x[1] \div g, x[2] \div g>>

RInt(n) == <<n, 1>>

RAdd(x, y) == RNorm(<<x[1] * y[2] + y[1] * x[2], x[2] * y[2]>>)

RSub(x, y) == RNorm(<<x[1] * y[2] - y[1] * x[2], x[2] * y[2]>>)

RMul(x, y) == RNorm(<<x[1] * y[1], x[2] * y[2]>>)

\* x / y for y > 0
RDiv(x, y) == RNorm(<<x[1] * y[2], x[2] * y[1]>>)

\* the same operations without reduction to lowest terms (same value)
RSubU(x, y) == <<x[1] * y[2] - y[1] * x[2], x[2] * y[2]>>

RMulU(x, y) == <<x[1] * y[1], x[2] * y[2]>>

RDivU(x, y) == <<x[1] * y[2], x[2] * y[1]>>

RLe(x, y) == x[1] * y[2] <= y[1] * x[2]

RAbs(x) == <<Abs(x[1]), x[2]>>

\* the quotient f of a division by d > 0, with twice the remainder r2, rounded half to even
RoundQuotient(f, r2, d) ==
    IF r2 < d THEN f
    ELSE IF r2 > d THEN f + 1
    ELSE IF f % 2 = 0 THEN f ELSE f + 1

\* torch.round: round half to even
RRound(x) == RoundQuotient(x[1] \div x[2], 2 * (x[1] % x[2]), x[2])

Clamp(n, lo, hi) == IF n < lo THEN lo ELSE IF n > hi THEN hi ELSE n

RECURSIVE Pow2(_)
Pow2(n) == IF n = 0 THEN 1 ELSE 2 * Pow2(n - 1)

----------------------------------------------------------------------------
(* Tensors *)

\* data is held as a sequence of its elements
Tensor(shape, data, dtype) == [shape |-> shape, data |-> data \o <<>>, dtype |-> dtype]

Numel(t) == t.shape[1] * t.shape[2]

\* torch broadcasting of two 2-D shapes
CanBroadcast(s1, s2) ==
    /\ (s1[1] = s2[1] \/ s1[1] = 1 \/ s2[1] = 1)
    /\ (s1[2] = s2[2] \/ s1[2] = 1 \/ s2[2] = 1)

Max(a, b) == IF a >= b THEN a ELSE b

BroadcastShape(s1, s2) == <<Max(s1[1], s2[1]), Max(s1[2], s2[2])>>

\* element (i, j), 0-based, of t seen at a broadcast shape
At(t, i, j) ==
    t.data[(IF t.shape[1] = 1 THEN 0 ELSE i) * t.shape[2]
           + (IF t.shape[2] = 1 THEN 0 ELSE j) + 1]

\* a - b, elementwise with broadcasting
Sub(a, b) ==
    Tensor(BroadcastShape(a.shape, b.shape),
           [k \in 1..(BroadcastShape(a.shape, b.shape)[1] * BroadcastShape(a.shape, b.shape)[2]) |->
                RSub(At(a, (k - 1) \div BroadcastShape(a.shape, b.shape)[2],
                        (k - 1) % BroadcastShape(a.shape, b.shape)[2]),
                     At(b, (k - 1) \div BroadcastShape(a.shape, b.shape)[2],
                        (k - 1) % BroadcastShape(a.shape, b.shape)[2]))],
           a.dtype)

\* a * b, elementwise with broadcasting
Mul(a, b) ==
    Tensor(BroadcastShape(a.shape, b.shape),
           [k \in 1..(BroadcastShape(a.shape, b.shape)[1] * BroadcastShape(a.shape, b.shape)[2]) |->
                RMul(At(a, (k - 1) \div BroadcastShape(a.shape, b.shape)[2],
                        (k - 1) % BroadcastShape(a.shape, b.shape)[2]),
                     At(b, (k - 1) \div BroadcastShape(a.shape, b.shape)[2],
                        (k - 1) % BroadcastShape(a.shape, b.shape)[2]))],
           a.dtype)

\* tensor * python scalar
Scale(t, n) == Tensor(t.shape, [k \in 1..Numel(t) |-> RMul(t.data[k], RInt(n))], t.dtype)

\* t.reshape(shape) (same number of elements, row-major order kept)
CanReshape(t, shape) == Numel(t) = shape[1] * shape[2]

Reshape(t, shape) == Tensor(shape, t.data, t.dtype)

\* t.reshape([-1, n])
CanReshapeCols(t, n) == Numel(t) % n = 0

ReshapeCols(t, n) == Reshape(t, <<Numel(t) \div n, n>>)

\* t.reshape(n, -1)
CanReshapeRows(t, n) == Numel(t) % n = 0

ReshapeRows(t, n) == Reshape(t, <<n, Numel(t) \div n>>)

\* t.to(dtype=...)
To(t, dtype) == Tensor(t.shape, t.data, dtype)

\* t.repeat([1, n])
Repeat1(t, n) ==
    Tensor(<<t.shape[1], t.shape[2] * n>>,
           [k \in 1..(Numel(t) * n) |->
                t.data[((k - 1) \div (t.shape[2] * n)) * t.shape[2]
                       + ((k - 1) % t.shape[2]) + 1]],
           t.dtype)

\* x + y, without a normalisation when the denominators are the same
SumAdd(x, y) == IF x[2] = y[2] THEN <<x[1] + y[1], x[2]>> ELSE RAdd(x, y)

RECURSIVE RSum(_, _, _)
RSum(data, lo, hi) ==
    IF lo > hi THEN RInt(0)
    ELSE IF lo = hi THEN data[lo]
    ELSE SumAdd(RSum(data, lo, (lo + hi) \div 2), RSum(data, ((lo + hi) \div 2) + 1, hi))

\* torch.mean(t, axis=1, keepdim=True)
MeanAxis1(t) ==
    Tensor(<<t.shape[1], 1>>,
           [g \in 1..t.shape[1] |->
                RDiv(RSum(t.data, (g - 1) * t.shape[2] + 1, g * t.shape[2]),
                     RInt(t.shape[2]))],
           t.dtype)

----------------------------------------------------------------------------
(* Program constants *)

\* group size the reconciler re-derives when the configured one is None
DefaultGroupSize == 128

\* in_features is padded to a multiple of this
PadMultiple == 1024

SupportedNbits == {1, 2, 4}

SupportedGroupSizes == {None, Some(32), Some(64), Some(128), Some(256)}

SupportedTiles == {2, 4, 8}

----------------------------------------------------------------------------
(* External collaborators: the scheme-A quantizer and the packing primitive *)

\* the weights the quantizer is applied to, each given by the codes, scales and zeros
\* the quantizer finds for it
Weights == {1}

\* the code of element k, 0-based, among n_codes codes
CodeAt(w, k, n_codes) == (k * (2 * w + 1) + (k \div 5)) % n_codes

ScaleAt(w, g) == RNorm(<<1 + ((3 * g + w) % 4), 4>>)

ZeroAt(w, g) == RNorm(<<((5 * g + 3 * w) % 9) - 1, 2>>)

\* the quantizer's result for the weight W of n elements in groups of cols, with n_codes
\* code values
Quantized(W, n, cols, n_codes, compute_dtype) ==
    [W_q  |-> Tensor(<<n \div cols, cols>>, [k \in 1..n |-> CodeAt(W.w, k - 1, n_codes)],
                     "uint8"),
     meta |-> [scale   |-> Tensor(<<n \div cols, 1>>,
                                  [g \in 1..(n \div cols) |-> ScaleAt(W.w, g)],
                                  compute_dtype),
               zero    |-> Tensor(<<n \div cols, 1>>,
                                  [g \in 1..(n \div cols) |-> ZeroAt(W.w, g)],
                                  compute_dtype),
               shape   |-> W.shape,
               packing |-> None]]

\* the quantizer on n elements in groups of cols; None when it raises
QuantizeGrouped(W, n, cols, n_codes, compute_dtype) ==
    IF n % cols # 0 THEN None ELSE Some(Quantized(W, n, cols, n_codes, compute_dtype))

\* Quantizer.quantize(W, nbits, group_size, ..., bitpack=False): scheme-A codes, one
\* group per row of W_q, with a scale and a zero per group
Quantize(W, nbits, group_size, compute_dtype) ==
    QuantizeGrouped(W, W.shape[1] * W.shape[2],
                    IF IsNone(group_size) THEN W.shape[2] ELSE Val(group_size),
                    Pow2(nbits), compute_dtype)

\* f[1] * base^(n - 1) + ... + f[n - 1] * base + f[n]
RECURSIVE Horner(_, _, _)
Horner(f, n, base) ==
    IF n = 0 THEN 0 ELSE Horner(f, n - 1, base) * base + f[n]

\* codes per byte of the packing of nbits-bit codes
PerByte(nbits) == 8 \div nbits

\* can W_q be bit-packed: its rows split in PerByte(nbits) blocks of the same height
CanBitpack(W_q, nbits) == W_q.shape[1] % PerByte(nbits) = 0

\* byte k of the packing holds element k of each of the per blocks of n elements, the
\* first block in the highest bits
BitpackBlocks(W_q, n_codes, per, step, n) ==
    Tensor(<<step, W_q.shape[2]>>,
           [k \in 1..n |->
               Horner([b \in 1..per |-> W_q.data[(b - 1) * n + k]], per, n_codes)],
           "uint8")

\* the bit-packed form HQQLinear keeps of a tensor of nbits-bit codes
Bitpack(W_q, nbits) ==
    BitpackBlocks(W_q, Pow2(nbits), PerByte(nbits), W_q.shape[1] \div PerByte(nbits),
                  (W_q.shape[1] \div PerByte(nbits)) * W_q.shape[2])

\* block b, from 0, of the n packed bytes: (byte \div n_codes^(per - 1 - b)) % n_codes
UnpackBlocks(W_q, n_codes, per, n) ==
    Tensor(<<per * W_q.shape[1], W_q.shape[2]>>,
           [k \in 1..(per * n) |->
               (W_q.data[((k - 1) % n) + 1]
                    \div Pow2((per - 1 - ((k - 1) \div n)) * (8 \div per))) % n_codes],
           "uint8")

\* Quantizer.unpack[meta['packing']](W_q), the packing being that of nbits-bit codes:
\* back to one code per element
Unpack(W_q, nbits) == UnpackBlocks(W_q, Pow2(nbits), PerByte(nbits), Numel(W_q))

\* torch.ops.aten._convert_weight_to_int4pack(W_q_torch, inner_k_tiles)
convert_weight_to_int4pack(W_q_torch, inner_k_tiles) ==
    [codes |-> W_q_torch, inner_k_tiles |-> inner_k_tiles]

----------------------------------------------------------------------------
(* HQQLinearTorchWeightOnlynt4: the pure helpers *)

find_multiple(n, k) == IF n % k = 0 THEN n ELSE n + k - (n % k)

\* reshape_meta_axis1(meta_tensor, new_group_size, shape); None when a reshape raises
reshape_meta_axis1(meta_tensor, new_group_size, shape) ==
    LET rep == Repeat1(meta_tensor, shape[2])
    IN  IF ~CanReshape(rep, shape) THEN None
        ELSE IF ~CanReshapeCols(Reshape(rep, shape), new_group_size) THEN None
        ELSE Some(MeanAxis1(ReshapeCols(Reshape(rep, shape), new_group_size)))

\* min_val without the shift by scales * dump
MinValUnshifted(new_zeros, scales, dump) == new_zeros

\* min_val of the scheme-B convention (line 148)
MinVal(new_zeros, scales, dump) == Sub(new_zeros, Scale(scales, dump))

\* new_zeros of the scheme-B convention (line 146)
NewZeros(scales, zeros, dump) == Sub(Scale(scales, dump), Mul(zeros, scales))

\* one element of lines 151-152: W_r = (W_q - zeros)*scales, then (W_r - min_val)/scales
RequantizeElement(w_q, zero, scale, min_val) ==
    RDivU(RSubU(RMulU(RSubU(w_q, zero), scale), min_val), scale)

\* element (i, j) of the result of lines 151-152, rounded and clamped
RequantizeAt(W_q, zeros, scales, min_val, min_int, max_int, i, j) ==
    Clamp(RRound(RequantizeElement(At(W_q, i, j), At(zeros, i, j), At(scales, i, j),
                                   At(min_val, i, j))),
          min_int, max_int)

\* what lines 151-152 make of each of the codes min_int..max_int under one zero, scale
\* and min_val
RequantizeCodes(zero, scale, min_val, min_int, max_int) ==
    [c \in 1..(max_int - min_int + 1) |->
        Clamp(RRound(RequantizeElement(RInt(min_int + c - 1), zero, scale, min_val)),
              min_int, max_int)] \o <<>>

\* zeros, scales and min_val have one value per row (or one in all)
PerRow(zeros, scales, min_val) ==
    zeros.shape[2] = 1 /\ scales.shape[2] = 1 /\ min_val.shape[2] = 1

\* RequantizeCodes for each of the rows, when zeros, scales and min_val are per row
RequantizeRows(zeros, scales, min_val, min_int, max_int, rows) ==
    [i \in 1..rows |->
        RequantizeCodes(At(zeros, i - 1, 0), At(scales, i - 1, 0), At(min_val, i - 1, 0),
                        min_int, max_int)] \o <<>>

\* is the element one of the codes min_int..max_int
IsCode(x, min_int, max_int) == x[2] = 1 /\ x[1] >= min_int /\ x[1] <= max_int

\* lines 151-152 at the shape s the operands broadcast to. The result for an element
\* depends on its value and on the zero, scale and min_val of its position only: for
\* per-row parameters and elements that are codes it is read from by_row, computed once
\* per row and code
RequantizeTo(W_q, zeros, scales, min_val, min_int, max_int, s, per_row, by_row) ==
    Tensor(s,
           [k \in 1..(s[1] * s[2]) |->
               IF per_row /\ IsCode(At(W_q, (k - 1) \div s[2], (k - 1) % s[2]), min_int, max_int)
               THEN by_row[((k - 1) \div s[2]) + 1]
                          [At(W_q, (k - 1) \div s[2], (k - 1) % s[2])[1] - min_int + 1]
               ELSE RequantizeAt(W_q, zeros, scales, min_val, min_int, max_int,
                                 (k - 1) \div s[2], (k - 1) % s[2])],
           "int32")

\* the shape W_q, zeros, scales and min_val broadcast to
RequantizeShape(W_q, zeros, scales, min_val) ==
    BroadcastShape(BroadcastShape(BroadcastShape(W_q.shape, zeros.shape), scales.shape),
                   min_val.shape)

\* lines 151-152 before the reshape: W_r = (W_q - zeros)*scales, then
\* W_r.sub(min_val).div(scales).round().clamp_(min_int, max_int).to(int32)
Requantize(W_q, zeros, scales, min_val, min_int, max_int) ==
    RequantizeTo(W_q, zeros, scales, min_val, min_int, max_int,
                 RequantizeShape(W_q, zeros, scales, min_val),
                 PerRow(zeros, scales, min_val),
                 RequantizeRows(zeros, scales, min_val, min_int, max_int,
                                RequantizeShape(W_q, zeros, scales, min_val)[1]))

\* lines 152-160: the reshapes of the results; ok = FALSE when one raises
RemapResult(W_q, scales, new_zeros, shape) ==
    IF ~CanReshape(W_q, shape) THEN [ok |-> FALSE]
    ELSE IF ~CanReshapeRows(scales, shape[1]) THEN [ok |-> FALSE]
    ELSE IF ~CanReshapeRows(new_zeros, shape[1]) THEN [ok |-> FALSE]
    ELSE [ok        |-> TRUE,
          W_q       |-> Reshape(W_q, shape),
          scales    |-> ReshapeRows(scales, shape[1]),
          new_zeros |-> ReshapeRows(new_zeros, shape[1])]

\* lines 146-160 on the tensors converted to the compute type
RemapConverted(W_q, scales, zeros, shape, max_int, min_int, dump) ==
    LET nz_shape  == BroadcastShape(scales.shape, zeros.shape)
        W_r_shape == BroadcastShape(BroadcastShape(W_q.shape, zeros.shape), scales.shape)
    IN  IF ~CanBroadcast(scales.shape, zeros.shape) THEN [ok |-> FALSE]
        ELSE IF ~CanBroadcast(W_q.shape, zeros.shape) THEN [ok |-> FALSE]
        ELSE IF ~CanBroadcast(BroadcastShape(W_q.shape, zeros.shape), scales.shape)
        THEN [ok |-> FALSE]
        ELSE IF ~CanBroadcast(W_r_shape, nz_shape) THEN [ok |-> FALSE]
        ELSE RemapResult(Requantize(W_q, zeros, scales,
                                    MinVal(NewZeros(scales, zeros, dump), scales, dump),
                                    min_int, max_int),
                         scales, NewZeros(scales, zeros, dump), shape)

\* hqq_quants_to_torch_quants(W_q, scales, zeros, shape, nbits); ok = FALSE when an
\* operation raises (shapes that do not broadcast or do not reshape)
hqq_quants_to_torch_quants(compute_dtype, W_q, scales, zeros, shape, nbits) ==
    RemapConverted(Tensor(W_q.shape, [k \in 1..Numel(W_q) |-> RInt(W_q.data[k])],
                          compute_dtype),
                   To(scales, compute_dtype), To(zeros, compute_dtype), shape,
                   Pow2(nbits) - 1, 0, Pow2(nbits - 1))

\* pack_scales_and_zeros without its assertions
PackUnchecked(scales, zeros) == TRUE

\* the three assertions of pack_scales_and_zeros
PackChecks(scales, zeros) ==
    /\ scales.shape = zeros.shape
    /\ scales.dtype = "bfloat16"
    /\ zeros.dtype = "bfloat16"

\* pack_scales_and_zeros(scales, zeros): [groups_per_row, out_features, 2]
pack_scales_and_zeros(scales, zeros) ==
    IF ~PackChecks(scales, zeros) THEN [ok |-> FALSE]
    ELSE [ok  |-> TRUE,
          val |-> [shape |-> <<scales.shape[2], scales.shape[1], 2>>,
                   data  |-> [g \in 1..scales.shape[2] |->
                                [n \in 1..scales.shape[1] |->
                                   <<scales.data[(n - 1) * scales.shape[2] + g],
                                     zeros.data[(n - 1) * zeros.shape[2] + g]>>]]]]

----------------------------------------------------------------------------
(* HQQLinearTorchWeightOnlynt4: the object and its methods.  A method is an *)
(* operator from the module record to the record after the call, with      *)
(* raised = TRUE when the call ends with an exception; the fields assigned  *)
(* before the exception keep their new values.                              *)

\* no module object: every attribute unset
Blank ==
    [exists |-> FALSE, ready |-> FALSE, in_gpu |-> FALSE, bias |-> None,
     compute_dtype |-> "", quant_config |-> None, del_orig |-> FALSE,
     groupsize |-> None, nbits |-> None, inner_k_tiles |-> None, padding |-> FALSE,
     has_linear_layer |-> FALSE, linear_layer |-> None,
     shape |-> None, in_features |-> None, out_features |-> None,
     origin_in_features |-> None, weight_int4pack |-> None, scales_and_zeros |-> None]

\* what a call reports besides the module: did it raise, did it call the quantizer,
\* did it enter process_hqq_quants, what did the reconciler receive and hand on
NoTrace == [quantized |-> FALSE, converted |-> FALSE, rederived |-> FALSE,
            proc_in |-> None, remap_in |-> None, remap_out |-> None]

Outcome(m, raised, trace) == [self |-> m, raised |-> raised, trace |-> trace]

\* lines 93-96: pack_scales_and_zeros and the assignment of its result
ProcessPacked(m, trace, p) ==
    IF ~p.ok THEN Outcome(m, TRUE, trace)
    ELSE Outcome([m EXCEPT !.scales_and_zeros = Some(p.val)], FALSE, trace)

\* lines 91-93, r the result of hqq_quants_to_torch_quants
ProcessRemapped(m, trace, r) ==
    IF ~r.ok THEN Outcome(m, TRUE, trace)
    ELSE ProcessPacked(
             [m EXCEPT !.weight_int4pack =
                           Some(convert_weight_to_int4pack(r.W_q, Val(m.inner_k_tiles)))],
             [trace EXCEPT !.remap_out = Some(r)],
             pack_scales_and_zeros(r.scales, r.new_zeros))

\* lines 83-89: shape, in_features, out_features and the padding policy
ShapeFields(m, shape) ==
    IF m.padding
    THEN [m EXCEPT !.shape = Some(shape),
                   !.out_features = Some(shape[1]),
                   !.origin_in_features = Some(shape[2]),
                   !.in_features = Some(find_multiple(shape[2], PadMultiple))]
    ELSE [m EXCEPT !.shape = Some(shape),
                   !.out_features = Some(shape[1]),
                   !.in_features = Some(shape[2])]

\* lines 83-96, on the codes, scales and zeros the reconciler hands on
ProcessReconciled(m, trace, W_q, scales, zeros, shape) ==
    ProcessRemapped(ShapeFields(m, shape),
                    [trace EXCEPT !.remap_in =
                         Some([W_q |-> W_q, scales |-> scales, zeros |-> zeros])],
                    hqq_quants_to_torch_quants(m.compute_dtype, W_q, scales, zeros, shape,
                                               Val(m.nbits)))

\* lines 79-81 once groupsize is set, rs and rz the reconciled scales and zeros
ProcessRederived(m, trace, W_q, rs, rz, shape) ==
    IF ~CanReshapeCols(W_q, Val(m.groupsize)) THEN Outcome(m, TRUE, trace)
    ELSE IF IsNone(rs) \/ IsNone(rz) THEN Outcome(m, TRUE, trace)
    ELSE ProcessReconciled(m, [trace EXCEPT !.rederived = TRUE],
                           ReshapeCols(W_q, Val(m.groupsize)), Val(rs), Val(rz), shape)

\* lines 77-96 with the re-derivation taken whatever the group size
ProcessAlwaysRederived(m, trace, W_q, meta) ==
    ProcessRederived([m EXCEPT !.groupsize = Some(DefaultGroupSize)], trace, W_q,
                     reshape_meta_axis1(meta.scale, DefaultGroupSize, meta.shape),
                     reshape_meta_axis1(meta.zero, DefaultGroupSize, meta.shape),
                     meta.shape)

\* lines 77-96, W_q unpacked
ProcessUnpacked(m, trace, W_q, meta) ==
    IF IsNone(m.groupsize)
    THEN ProcessRederived([m EXCEPT !.groupsize = Some(DefaultGroupSize)], trace, W_q,
                          reshape_meta_axis1(meta.scale, DefaultGroupSize, meta.shape),
                          reshape_meta_axis1(meta.zero, DefaultGroupSize, meta.shape),
                          meta.shape)
    ELSE ProcessReconciled(m, trace, W_q, meta.scale, meta.zero, meta.shape)

\* what process_hqq_quants received, codes unpacked
ProcInTrace(W_q, meta) ==
    [NoTrace EXCEPT !.converted = TRUE,
                    !.proc_in = Some([W_q |-> W_q, scales |-> meta.scale,
                                      zeros |-> meta.zero])]

\* lines 77-96 on the unpacked codes, with the record of what the call received
ProcessTraced(m, W_q, meta) == ProcessUnpacked(m, ProcInTrace(W_q, meta), W_q, meta)

\* process_hqq_quants(W_q, meta)
process_hqq_quants(m, W_q, meta) ==
    IF IsNone(meta.packing) THEN ProcessTraced(m, W_q, meta)
    ELSE ProcessTraced(m, Unpack(W_q, Val(meta.packing)), meta)

\* lines 101-103 without the assignment of ready
WithBiasOnly(p, bias) ==
    IF p.raised THEN p ELSE [p EXCEPT !.self = [p.self EXCEPT !.bias = bias]]

\* lines 101-103
WithBiasReady(p, bias) ==
    IF p.raised THEN p
    ELSE [p EXCEPT !.self = [p.self EXCEPT !.bias = bias, !.ready = TRUE, !.in_gpu = TRUE]]

\* initialize_with_hqq_quants(W_q, meta, bias)
initialize_with_hqq_quants(m, W_q, meta, bias) ==
    WithBiasReady(process_hqq_quants(m, W_q, meta), bias)

\* the end of initialize() without the release of the linear layer
InitializeFinishKeeping(m) == [m EXCEPT !.ready = TRUE, !.in_gpu = TRUE]

\* the end of initialize(): lines 121-125
InitializeFinish(m) ==
    IF m.del_orig
    THEN [m EXCEPT !.has_linear_layer = FALSE, !.linear_layer = None,
                   !.ready = TRUE, !.in_gpu = TRUE]
    ELSE [m EXCEPT !.ready = TRUE, !.in_gpu = TRUE]

\* lines 112-128, p the outcome of process_hqq_quants
InitializeProcessed(p, bias) ==
    IF p.raised THEN [p EXCEPT !.trace.quantized = TRUE]
    ELSE Outcome(InitializeFinish([p.self EXCEPT !.bias = bias]), FALSE,
                 [p.trace EXCEPT !.quantized = TRUE])

\* lines 111-128, q the result of the quantizer (None: it raised)
InitializeQuantized(m, q) ==
    IF IsNone(q) THEN Outcome(m, TRUE, [NoTrace EXCEPT !.quantized = TRUE])
    ELSE InitializeProcessed(process_hqq_quants(m, Val(q).W_q, Val(q).meta),
                             Val(m.linear_layer).bias)

\* initialize()
initialize(m) ==
    IF ~m.has_linear_layer THEN Outcome(m, TRUE, NoTrace)
    ELSE IF IsNone(m.linear_layer) THEN Outcome(InitializeFinish(m), FALSE, NoTrace)
    ELSE InitializeQuantized(m, Quantize(Val(m.linear_layer).weight,
                                         Val(m.quant_config).nbits,
                                         Val(m.quant_config).group_size, m.compute_dtype))

\* the three assertions of __init__
ConfigChecks(nbits, groupsize, inner_k_tiles) ==
    /\ nbits \in SupportedNbits
    /\ groupsize \in SupportedGroupSizes
    /\ inner_k_tiles \in SupportedTiles

\* lines 25-44: the fields __init__ sets before it initializes
ConstructorFields(linear_layer, quant_config, del_orig, compute_dtype, inner_k_tiles, padding) ==
    [Blank EXCEPT !.exists = TRUE,
                  !.compute_dtype = compute_dtype,
                  !.quant_config = Some(quant_config),
                  !.del_orig = del_orig,
                  !.groupsize = quant_config.group_size,
                  !.nbits = Some(quant_config.nbits),
                  !.inner_k_tiles = Some(inner_k_tiles),
                  !.padding = padding,
                  !.has_linear_layer = TRUE,
                  !.linear_layer = linear_layer]

\* an exception that leaves __init__: there is no object
NoObject(i) == IF i.raised THEN [i EXCEPT !.self = Blank] ELSE i

\* __init__(linear_layer, quant_config, del_orig, compute_dtype, device, initialize,
\*          inner_k_tiles, padding)
Constructor(linear_layer, quant_config, del_orig, compute_dtype, init, inner_k_tiles, padding) ==
    IF ~ConfigChecks(quant_config.nbits, quant_config.group_size, inner_k_tiles)
    THEN Outcome(Blank, TRUE, NoTrace)
    ELSE IF ~init
    THEN Outcome(ConstructorFields(linear_layer, quant_config, del_orig, compute_dtype,
                                   inner_k_tiles, padding), FALSE, NoTrace)
    ELSE NoObject(initialize(ConstructorFields(linear_layer, quant_config, del_orig,
                                               compute_dtype, inner_k_tiles, padding)))

\* torch.ops.aten._weight_int4pack_mm(x, weight_int4pack, groupsize, scales_and_zeros):
\* x [M, K] against the packed [N, K] weight gives [M, N]; None when it raises
weight_int4pack_mm(x, weight_int4pack) ==
    IF x[2] # weight_int4pack.codes.shape[2] THEN None
    ELSE Some(<<x[1], weight_int4pack.codes.shape[1]>>)

\* matmul(x), x given by its shape [batch, width]: the shape of the result
matmul(m, x) ==
    IF IsNone(m.weight_int4pack) \/ IsNone(m.groupsize) \/ IsNone(m.scales_and_zeros)
    THEN None
    ELSE LET c == weight_int4pack_mm(x, Val(m.weight_int4pack))
         IN  IF IsNone(c) THEN None
             ELSE IF Val(c)[1] * Val(c)[2] # x[1] * Val(m.out_features) THEN None
             ELSE Some(<<x[1], Val(m.out_features)>>)

\* dequantize(): matmul(torch.eye(out_features)).t()
dequantize(m) ==
    IF IsNone(m.out_features) THEN None
    ELSE LET c == matmul(m, <<Val(m.out_features), Val(m.out_features)>>)
         IN  IF IsNone(c) THEN None ELSE Some(<<Val(c)[2], Val(c)[1]>>)

\* forward(x); has_F: whether torch.nn.functional has the attribute F that line 196
\* reads (an attribute of the installed library, not of this module)
forward(m, x, has_F) ==
    LET padded == <<x[1], x[2] + (Val(m.in_features) - Val(m.origin_in_features))>>
    IN  IF m.padding /\ ~has_F THEN None
        ELSE IF m.padding /\ (IsNone(m.in_features) \/ IsNone(m.origin_in_features)) THEN None
        ELSE IF m.padding /\ padded[2] < 0 THEN None
        ELSE matmul(m, IF m.padding THEN padded ELSE x)

\* line 210, c the outcome of the constructor call of line 209
PatchInitialize(c, l) ==
    IF c.raised THEN c
    ELSE NoObject(initialize_with_hqq_quants(c.self, Val(l.W_q), Val(l.meta), l.bias))

\* does the patch function build a new layer for this one
IsHQQLinear(l) == l.type = "HQQLinear"

\* patch_HQQLinear_to_HQQLinearTorchWeightOnlynt4(layer, patch_params): the new layer,
\* when it is not the layer that was passed in
patch(l) ==
    IF ~IsHQQLinear(l) THEN Outcome(Blank, FALSE, NoTrace)
    ELSE PatchInitialize(Constructor(None, l.quant_config, FALSE, l.compute_dtype, FALSE,
                                     8, FALSE), l)

\* the layer passed to the patch function, after the call: it is only read
LayerAfterPatch(l) == l

----------------------------------------------------------------------------
(* Inputs *)

\* method calls made on one object after its construction
MaxCalls == 1

\* batch sizes of the inputs of forward
Batches == {1, 2}

LayerShapes == {<<4, 8>>, <<2, 64>>, <<2, 128>>, <<1, 256>>}

Dtypes == {"bfloat16", "float16"}

\* the float linear layers a module is built from; the wide ones carry a bias
FloatLayers ==
    {[weight |-> [shape |-> s, w |-> w], bias |-> IF s[2] >= 64 THEN Some(1) ELSE None] :
        s \in LayerShapes, w \in Weights}

\* the inner_k_tiles values passed to the constructor
Tiles == {4, 8, 16}

DefaultOptions ==
    [del_orig |-> TRUE, compute_dtype |-> "bfloat16", initialize |-> TRUE,
     inner_k_tiles |-> 8, padding |-> FALSE]

\* the defaults with at most one of del_orig, compute_dtype, inner_k_tiles and padding
\* changed
OneChanged ==
    {DefaultOptions,
     [DefaultOptions EXCEPT !.del_orig = FALSE],
     [DefaultOptions EXCEPT !.compute_dtype = "float16"],
     [DefaultOptions EXCEPT !.padding = TRUE]}
    \cup {[DefaultOptions EXCEPT !.inner_k_tiles = t] : t \in Tiles}

\* constructor options: those, with initialize = True and with initialize = False
CtorOptions == {[o EXCEPT !.initialize = i] : o \in OneChanged, i \in BOOLEAN}

QuantConfigs ==
    {[nbits |-> n, group_size |-> g] :
        n \in SupportedNbits \cup {8}, g \in SupportedGroupSizes \cup {Some(16)}}

\* the quantized state of an HQQLinear layer, or what a caller hands to
\* initialize_with_hqq_quants: variant "plain" is the quantizer's output, "packed" its
\* bit-packed form, "scalar_scale" has one scale for the whole tensor
Variants == {"plain", "packed", "scalar_scale"}

\* the variants taken of the quantized state of a weight of a given shape
VariantsOf(shape) == IF shape[1] = 1 THEN {"plain", "scalar_scale"} ELSE {"plain", "packed"}

\* the packing of a packed state is named by the bit-width of its codes
HQQState(q, nbits, variant) ==
    [W_q  |-> IF variant = "packed" THEN Bitpack(q.W_q, nbits) ELSE q.W_q,
     meta |-> [q.meta EXCEPT
                 !.packing = IF variant = "packed" THEN Some(nbits) ELSE None,
                 !.scale = IF variant = "scalar_scale"
                           THEN Tensor(<<1, 1>>, <<q.meta.scale.data[1]>>, q.meta.scale.dtype)
                           ELSE q.meta.scale]]

\* the quantized states made of q, the quantizer's result for a weight (None: it raised)
HQQStatesOf(q, nbits) ==
    IF IsNone(q) THEN {}
    ELSE {HQQState(Val(q), nbits, v) :
             v \in {u \in VariantsOf(Val(q).meta.shape) :
                       u = "packed" => CanBitpack(Val(q).W_q, nbits)}}

HQQStates(quant_config, compute_dtype) ==
    UNION {HQQStatesOf(Quantize([shape |-> t[1], w |-> t[2]], quant_config.nbits,
                                quant_config.group_size, compute_dtype),
                       quant_config.nbits) :
              t \in LayerShapes \X (Weights)}

\* the bias that comes with a quantized state: the bit-packed ones carry one
BiasOf(h) == IF IsNone(h.meta.packing) THEN None ELSE Some(2)

HQQLayers(qc, d) ==
    {[type |-> "HQQLinear", quant_config |-> qc, compute_dtype |-> d,
      W_q |-> Some(h.W_q), meta |-> Some(h.meta), bias |-> BiasOf(h)] :
        h \in HQQStates(qc, d)}

\* the layers the patch function is applied to
PatchLayers ==
    {[type |-> "Linear", quant_config |-> [nbits |-> 4, group_size |-> None],
      compute_dtype |-> "float16", W_q |-> None, meta |-> None, bias |-> None]}
    \cup UNION {HQQLayers(qc, d) : qc \in QuantConfigs, d \in Dtypes}

\* widths of the inputs of forward: the width of the weight the module was built
\* from, and the padded width
ForwardWidths(m) == (IF IsNone(m.shape) THEN {} ELSE {Val(m.shape)[2]}) \cup {PadMultiple}

----------------------------------------------------------------------------
(* The state machine: the life of one object *)

InitialRet ==
    [op |-> "", raised |-> FALSE, trace |-> NoTrace, args |-> None, out |-> None,
     same |-> FALSE]

\* the call op(args) ended as r says: the object and the record of the call
Returns(op, r, args, same) ==
    /\ self' = r.self
    /\ ret' = [op |-> op, raised |-> r.raised, trace |-> r.trace, args |-> args,
               out |-> None, same |-> same]
    /\ pre' = self

\* the call op(args) returned out (None: it raised) and left the object alone
Computes(op, out, args) ==
    /\ ret' = [op |-> op, raised |-> IsNone(out), trace |-> NoTrace, args |-> args,
               out |-> out, same |-> FALSE]
    /\ pre' = self
    /\ UNCHANGED self

Init ==
    /\ self = Blank
    /\ layer = None
    /\ ret = InitialRet
    /\ pre = Blank
    /\ calls = 0

\* HQQLinearTorchWeightOnlynt4(linear_layer, quant_config, ...)
Construct ==
    /\ ret.op = ""
    /\ \E ll \in {None} \cup {Some(f) : f \in FloatLayers}, qc \in QuantConfigs,
          o \in CtorOptions :
          Returns("__init__",
                  Constructor(ll, qc, o.del_orig, o.compute_dtype, o.initialize,
                              o.inner_k_tiles, o.padding),
                  Some([linear_layer |-> ll, quant_config |-> qc, options |-> o]), FALSE)
    /\ UNCHANGED <<layer, calls>>

\* self.initialize()
Initialize ==
    /\ self.exists
    /\ calls < MaxCalls
    /\ Returns("initialize", initialize(self), None, FALSE)
    /\ calls' = calls + 1
    /\ UNCHANGED layer

\* self.initialize_with_hqq_quants(W_q, meta, bias)
InitializeWithHqqQuants ==
    /\ self.exists
    /\ calls < MaxCalls
    /\ \E h \in HQQStates(Val(self.quant_config), self.compute_dtype) :
          Returns("initialize_with_hqq_quants",
                  initialize_with_hqq_quants(self, h.W_q, h.meta, BiasOf(h)),
                  Some(h), FALSE)
    /\ calls' = calls + 1
    /\ UNCHANGED layer

\* self.forward(x), x of shape [batch, width]
Forward ==
    /\ self.exists
    /\ calls < MaxCalls
    /\ \E batch \in Batches, width \in ForwardWidths(self), has_F \in BOOLEAN :
          Computes("forward", forward(self, <<batch, width>>, has_F), Some(<<batch, width>>))
    /\ calls' = calls + 1
    /\ UNCHANGED layer

\* self.dequantize()
Dequantize ==
    /\ self.exists
    /\ calls < MaxCalls
    /\ Computes("dequantize", dequantize(self), None)
    /\ calls' = calls + 1
    /\ UNCHANGED layer

\* patch_HQQLinear_to_HQQLinearTorchWeightOnlynt4(layer, patch_params)
Patch ==
    /\ ret.op = ""
    /\ \E l \in PatchLayers :
          /\ Returns("patch", patch(l), Some(l), ~IsHQQLinear(l))
          /\ layer' = Some(LayerAfterPatch(l))
    /\ UNCHANGED calls

Next ==
    \/ Construct
    \/ Initialize
    \/ InitializeWithHqqQuants
    \/ Forward
    \/ Dequantize
    \/ Patch

Spec == Init /\ [][Next]_vars

----------------------------------------------------------------------------
(* Properties *)

\* the calls that build or rebuild the packed state
ConvOps == {"__init__", "initialize", "initialize_with_hqq_quants", "patch"}

\* the quant_config the last construction call worked under
ConfiguredOf(r, before) ==
    IF r.op \in {"__init__", "patch"} THEN Val(r.args).quant_config
    ELSE Val(before.quant_config)

\* the group size of the object when the last call reached process_hqq_quants
GroupSizeAtCall(r, before) ==
    IF r.op \in {"__init__", "patch"} THEN Val(r.args).quant_config.group_size
    ELSE before.groupsize

\* a scheme-A input grouped as the group size gs says: one row of W_q per group, with
\* one scale and one zero per row (for None one group per output row)
GroupedAs(gs, pin, shape) ==
    /\ pin.W_q.shape = (IF IsNone(gs) THEN shape
                        ELSE <<(shape[1] * shape[2]) \div Val(gs), Val(gs)>>)
    /\ pin.scales.shape = <<pin.W_q.shape[1], 1>>
    /\ pin.zeros.shape = <<pin.W_q.shape[1], 1>>

\* scheme-A dequantized value of element e (flat, 1-based): (codes - zero) * scale
SchemeAValue(pin, e) ==
    LET g == ((e - 1) \div pin.W_q.shape[2]) + 1
    IN  RMul(RSub(RInt(pin.W_q.data[e]), pin.zeros.data[g]), pin.scales.data[g])

\* the (scale, new_zero) pair the packed tensor holds for element e of the weight
PairOf(m, e) ==
    LET n == (e - 1) \div Val(m.shape)[2]
        k == (e - 1) % Val(m.shape)[2]
    IN  Val(m.scales_and_zeros).data[(k \div Val(m.groupsize)) + 1][n + 1]

\* scheme-B dequantized value: codes' * scale + (new_zero - scale * 2^(bits-1))
SchemeBValue(code, pair, dump) ==
    RAdd(RMulU(RInt(code), pair[1]), RSubU(pair[2], RMulU(pair[1], RInt(dump))))

\* the two dequantized values differ by at most the scale of the pair
WithinOneScale(code, pair, dump, a_value) ==
    RLe(RAbs(RSubU(SchemeBValue(code, pair, dump), a_value)), pair[1])

\* the packed scale/zero tensor has a pair for every group of every row
PairsCoverWeight(m) ==
    /\ Val(m.shape)[2] % Val(m.groupsize) = 0
    /\ Val(m.scales_and_zeros).shape =
           <<Val(m.shape)[2] \div Val(m.groupsize), Val(m.shape)[1], 2>>

\* the last call converted a scheme-A input grouped as the object's group size
Converted ==
    /\ ret.op \in ConvOps
    /\ ~ret.raised
    /\ ret.trace.converted
    /\ GroupedAs(GroupSizeAtCall(ret, pre), Val(ret.trace.proc_in), Val(self.shape))

----------------------------------------------------------------------------
\* the fields a caller can observe of the module
Observable(m) ==
    <<m.groupsize, m.shape, m.in_features, m.out_features, m.origin_in_features,
      m.weight_int4pack, m.scales_and_zeros, m.bias, m.ready>>

\* the packed tensors and the sizes forward works with
Built(m) ==
    /\ ~IsNone(m.weight_int4pack)
    /\ ~IsNone(m.scales_and_zeros)
    /\ ~IsNone(m.in_features)
    /\ ~IsNone(m.out_features)

\* the last call was a construction path: the constructor with initialize=True,
\* initialize() or initialize_with_hqq_quants()
ConstructionPath ==
    \/ ret.op \in {"initialize", "initialize_with_hqq_quants"}
    \/ ret.op = "__init__" /\ Val(ret.args).options.initialize

\* C2: padding correctness. forward on a module built with padding=True, on an input
\* of width origin_in_features, completes and returns what forward returns on the
\* module built without padding (a [batch, out_features] result), the padded input
\* being as wide as the packed weight.
C2_PaddedForward ==
    (/\ ret.op = "forward"
     /\ self.ready
     /\ self.padding
     /\ Built(self)
     /\ Val(ret.args)[2] = Val(self.origin_in_features))
    => /\ ~ret.raised
       /\ ret.out = Some(<<Val(ret.args)[1], Val(self.out_features)>>)
       /\ Val(self.in_features) = Val(self.weight_int4pack).codes.shape[2]

\* C3: all-or-nothing construction. Every construction path either completes with
\* ready=true or raises with the observable state of the module as before the call.
C3_AllOrNothing ==
    ConstructionPath =>
        IF ret.raised THEN Observable(self) = Observable(pre) ELSE self.ready

\* the configuration the last constructor call (direct, or made by the patch function)
\* was given is outside the supported values
UnsupportedConfig ==
    \/ /\ ret.op = "__init__"
       /\ \/ Val(ret.args).quant_config.nbits \notin {1, 2, 4}
          \/ Val(ret.args).quant_config.group_size
                 \notin {None, Some(32), Some(64), Some(128), Some(256)}
          \/ Val(ret.args).options.inner_k_tiles \notin {2, 4, 8}
    \/ /\ ret.op = "patch"
       /\ Val(ret.args).type = "HQQLinear"
       /\ \/ Val(ret.args).quant_config.nbits \notin {1, 2, 4}
          \/ Val(ret.args).quant_config.group_size
                 \notin {None, Some(32), Some(64), Some(128), Some(256)}

\* the scale and zero the last call handed to pack_scales_and_zeros differ in shape, or
\* one of them is not bfloat16
BadScaleZero ==
    /\ ret.op \in ConvOps
    /\ ~IsNone(ret.trace.remap_out)
    /\ \/ Val(ret.trace.remap_out).scales.shape # Val(ret.trace.remap_out).new_zeros.shape
       \/ Val(ret.trace.remap_out).scales.dtype # "bfloat16"
       \/ Val(ret.trace.remap_out).new_zeros.dtype # "bfloat16"

\* C4: configuration errors are fatal. An unsupported bit-width, group size or tile
\* value makes the constructor raise before any quantization or conversion; scale and
\* zero of different shapes or not of type bfloat16 make the construction call raise;
\* in none of these cases does the module become ready.
C4_ConfigErrorsFatal ==
    /\ UnsupportedConfig =>
           /\ ret.raised
           /\ ~ret.trace.quantized
           /\ ~ret.trace.converted
           /\ ~self.exists
           /\ ~self.ready
    /\ BadScaleZero =>
           /\ ret.raised
           /\ ~pre.ready => ~self.ready

\* scale and zero of different shapes reached pack_scales_and_zeros
C4_Witness ==
    /\ BadScaleZero
    /\ Val(ret.trace.remap_out).scales.dtype = "bfloat16"
    /\ Val(ret.trace.remap_out).scales.shape # Val(ret.trace.remap_out).new_zeros.shape
    /\ ret.raised
    /\ ~self.ready

\* C5: end-to-end construction with ungrouped quantization. For a float weight
\* [out, in] with bit-width 4 and group size None (4x8 included) construction succeeds
\* with out_features = out and in_features = in (rounded up to a multiple of 1024 with
\* padding), and forward on a [batch, in] input returns a [batch, out] output.
C5_UngroupedEndToEnd ==
    /\ (/\ ret.op = "__init__"
        /\ ~IsNone(Val(ret.args).linear_layer)
        /\ Val(ret.args).quant_config = [nbits |-> 4, group_size |-> None]
        /\ Val(ret.args).options.initialize
        /\ Val(ret.args).options.compute_dtype = "bfloat16"
        /\ Val(ret.args).options.inner_k_tiles = 8)
       => /\ ~ret.raised
          /\ self.ready
          /\ self.out_features = Some(Val(Val(ret.args).linear_layer).weight.shape[1])
          /\ self.in_features =
                 Some(IF self.padding
                      THEN ((Val(Val(ret.args).linear_layer).weight.shape[2] + 1023) \div 1024)
                           * 1024
                      ELSE Val(Val(ret.args).linear_layer).weight.shape[2])
    /\ (/\ ret.op = "forward"
        /\ self.ready
        /\ Built(self)
        /\ Val(self.quant_config) = [nbits |-> 4, group_size |-> None]
        /\ Val(ret.args)[2] = Val(self.shape)[2])
       => ret.out = Some(<<Val(ret.args)[1], Val(self.shape)[1]>>)

\* the module refers to a float linear layer
HoldsSource(m) == m.has_linear_layer /\ ~IsNone(m.linear_layer)

\* the packed state: packed weight, packed scale/zero, group size and sizes
Packed(m) ==
    <<m.weight_int4pack, m.scales_and_zeros, m.groupsize, m.in_features, m.out_features>>

C8_DequantizeRecovers ==
    (ret.op = "dequantize" /\ self.ready /\ Built(self))
    => /\ ~ret.raised
       /\ ret.out = Some(<<Val(self.out_features), Val(self.in_features)>>)

\* equality of two rationals
REq(x, y) == x[1] * y[2] = y[1] * x[2]

\* the mean of group g (of DefaultGroupSize consecutive elements of the weight, row by
\* row) of a per-row parameter t (one value per output row of a weight of width in)
GroupMean(t, g, in) ==
    RDiv(RSum([i \in 1..DefaultGroupSize |->
                  t.data[(((g - 1) * DefaultGroupSize + i - 1) \div in) + 1]],
              1, DefaultGroupSize),
         RInt(DefaultGroupSize))

\* t holds the per-group means of the per-row parameter given for a weight of width in
IsGroupMeans(t, given, in) ==
    /\ t.shape = <<(given.shape[1] * in) \div DefaultGroupSize, 1>>
    /\ \A g \in 1..t.shape[1] : REq(t.data[g], GroupMean(given, g, in))

\* C9: group reconciliation. With a configured group size in {32,64,128,256}
\* process_hqq_quants hands the codes, scale and zero it received to the remapper
\* unchanged and the group size of the module stays the configured one; only a None
\* group size is re-derived: the group size becomes 128 and scale and zero become the
\* per-group means; quant_config keeps the value it was constructed with.
C9_GroupReconciliation ==
    (ret.op \in ConvOps /\ ret.trace.converted) =>
        /\ ~IsNone(ConfiguredOf(ret, pre).group_size) =>
               /\ ~ret.trace.rederived
               /\ ~IsNone(ret.trace.remap_in)
               /\ ret.trace.remap_in = ret.trace.proc_in
               /\ self.exists => self.groupsize = ConfiguredOf(ret, pre).group_size
        /\ ret.trace.rederived =>
               /\ IsNone(ConfiguredOf(ret, pre).group_size)
               /\ self.exists => self.groupsize = Some(128)
               /\ Val(ret.trace.remap_in).W_q.shape[2] = 128
               /\ Val(ret.trace.remap_in).W_q.data = Val(ret.trace.proc_in).W_q.data
               /\ Val(ret.trace.proc_in).scales.shape = <<Val(ret.trace.proc_in).W_q.shape[1], 1>>
                  => IsGroupMeans(Val(ret.trace.remap_in).scales,
                                  Val(ret.trace.proc_in).scales,
                                  Val(ret.trace.proc_in).W_q.shape[2])
               /\ Val(ret.trace.proc_in).zeros.shape = <<Val(ret.trace.proc_in).W_q.shape[1], 1>>
                  => IsGroupMeans(Val(ret.trace.remap_in).zeros,
                                  Val(ret.trace.proc_in).zeros,
                                  Val(ret.trace.proc_in).W_q.shape[2])
        /\ self.exists => self.quant_config = Some(ConfiguredOf(ret, pre))

\* a None group size was re-derived over groups that span two rows of the weight
C9_Witness ==
    /\ ret.op = "initialize"
    /\ ret.trace.rederived
    /\ ~IsNone(ret.trace.remap_in)
    /\ Val(ret.trace.proc_in).W_q.shape = <<2, 64>>
    /\ self.groupsize = Some(128)

\* C10: ready=true implies that the packed weight and the packed scale/zero tensor are
\* built and that in_features and out_features are set, after any sequence of
\* constructor, initialize() and initialize_with_hqq_quants() calls, a module
\* constructed with no source linear layer included.
C10_ReadyImpliesBuilt == self.ready => Built(self)

====
